---- MODULE Spec2Model ----
(***************************************************************************)
(* Model of the request handlers of dav-server-rs:                         *)
(*   handle_get / handle_dirlist  (src/src/handle_gethead.rs)              *)
(*   handle_report                (src/src/handle_report.rs)               *)
(*                                                                         *)
(* One request is handled at a time.  The request, the resource it names   *)
(* and the verdicts of the collaborators that are not part of these two    *)
(* files (conditional::ifrange_match, conditional::if_match, the           *)
(* filesystem) are chosen in the initial state; the results of file.read   *)
(* and the failures of body writes are chosen at the step that makes the   *)
(* call.                                                                   *)
(***************************************************************************)
EXTENDS Integers, Sequences, FiniteSets, TLC

----------------------------------------------------------------------------
(* Bounds of the model *)

\* stand-in for u64::MAX: unsigned arithmetic is done modulo MaxU64 + 1
MaxU64 == 65535
\* small file lengths and range values are 0 .. MaxLen (and MaxLen + 1 for values)
MaxLen == 2
\* one-byte results of file.read that a single transfer may see
MaxShortReads == 2
\* number of entries read_dir returns
MaxEntries == 3
\* number of href children of a REPORT body
MaxHrefs == 2

(* Program constants *)

\* let mut buffer = [0; 8192];
BufLen == 8192
\* let zero = [0; 4096];
ZeroLen == 4096

Mod == MaxU64 + 1

----------------------------------------------------------------------------
(* u64 arithmetic.  A build with overflow checks panics where the exact    *)
(* result leaves 0 .. MaxU64, a build without them wraps.                  *)

WAdd(a, b) == (a + b) % Mod
WSub(a, b) == (a - b + Mod) % Mod
AddOverflows(a, b) == a + b > MaxU64
SubOverflows(a, b) == b > a

Min(a, b) == IF a < b THEN a ELSE b

----------------------------------------------------------------------------
VARIABLES
    req,        \* the request: method, If-Range, Range (GET/HEAD); Depth, X-Litmus, body (REPORT)
    env,        \* the resource and the collaborators' verdicts for this request
    build,      \* "unknown" | "checked" | "wrapping": overflow checks of the build
    reqno,      \* 1 for the first request, 2 for the follow-up request
    variant,    \* how the follow-up request differs: "none" | "head" | "norange"
    prev,       \* the outcome of the first request (and how many ranges it named), kept for the follow-up
    pc,         \* position in the handler
    start,      \* let mut start
    count,      \* let mut count
    len,        \* let len
    do_range,   \* let mut do_range
    status,     \* res.status: 0 while the handler has not set it
    headers,    \* res.headers
    result,     \* "none" while running | "ok" | "err_status" | "err_fs" | "err_io" | "panic"
    started,    \* res.start() was called
    seeked,     \* offset file.seek moved to, -1 if seek was not called
    written,    \* body bytes handed to the writer
    io,         \* the streaming loop's last iteration and read budget
    dirents,    \* Vec<Dirent> of handle_dirlist
    rows,       \* table rows written by handle_dirlist
    rep         \* handle_report: the parsed request, the response body, the producer task

vars == <<req, env, build, reqno, variant, prev, pc, start, count, len, do_range,
          status, headers, result, started, seeked, written, io, dirents, rows, rep>>

----------------------------------------------------------------------------
(* Requests *)

FromTo(s, e) == [kind |-> "FromTo", a |-> s, b |-> e]
AllFrom(s) == [kind |-> "AllFrom", a |-> s, b |-> 0]
Last(n) == [kind |-> "Last", a |-> n, b |-> 0]

\* values a range spec may carry
RangeVals == (0 .. MaxLen + 1) \cup {MaxU64}

\* ByteRangeSpec values (From-To carries first <= last)
RangeSpecs ==
    {FromTo(p[1], p[2]) : p \in {q \in RangeVals \X RangeVals : q[1] <= q[2]}}
    \cup {AllFrom(s) : s \in RangeVals}
    \cup {Last(n) : n \in RangeVals}

\* specs used in headers that name two ranges
MultiSpecs == {FromTo(0, 0), AllFrom(MaxLen + 1), Last(0)}

NoRange == [present |-> FALSE, bytes |-> TRUE, ranges |-> <<>>]

RangeHeaders ==
    {NoRange}
    \cup {[present |-> TRUE, bytes |-> FALSE, ranges |-> <<>>]}
    \cup {[present |-> TRUE, bytes |-> TRUE, ranges |-> <<>>]}
    \cup {[present |-> TRUE, bytes |-> TRUE, ranges |-> <<r>>] : r \in RangeSpecs}
    \cup {[present |-> TRUE, bytes |-> TRUE, ranges |-> <<r1, r2>>] :
            r1 \in MultiSpecs, r2 \in MultiSpecs}

\* lengths of regular files: small ones, and ones longer than the zero block
\* and than the read buffer
FileLens == (0 .. MaxLen) \cup {ZeroLen + 1, BufLen + 1}

\* what conditional::if_match returns: 0 for None, else the status
IfMatchVerdicts == {0, 412}

\* results of file.read (never more than the buffer holds)
ReadRets == {0, 1, ZeroLen, BufLen}

GetRequests ==
    [method : {"GET", "HEAD"}, if_range : BOOLEAN, range : RangeHeaders]

PlainRequests ==
    [method : {"GET", "HEAD"}, if_range : {FALSE}, range : {NoRange}]

\* a regular file and the verdicts for the request on it
FileEnvs ==
    [kind : {"file"}, slash : {FALSE}, len : FileLens, has_mtime : BOOLEAN,
     seek_ok : BOOLEAN, readdir_ok : {TRUE}, entries : {<<>>},
     ifrange_match : BOOLEAN, if_match : IfMatchVerdicts]

\* paths the handler cannot serve as a file: fs.metadata fails, fs.open fails,
\* file.metadata fails, the object is not a regular file
OtherEnvs ==
    [kind : {"meta_err", "open_err", "fmeta_err", "special"}, slash : {FALSE},
     len : {0}, has_mtime : {TRUE}, seek_ok : {TRUE}, readdir_ok : {TRUE},
     entries : {<<>>}, ifrange_match : {FALSE}, if_match : {0}]

----------------------------------------------------------------------------
(* The response *)

NoHeaders ==
    [LastModified |-> FALSE, ETag |-> FALSE, ContentRange |-> <<>>,
     ContentType |-> "", ContentLength |-> -1, AcceptRanges |-> FALSE,
     Location |-> FALSE, CacheControl |-> FALSE, Pragma |-> FALSE]

NoIo == [last_read |-> -1, last_data |-> "none", last_n |-> 0,
         short_left |-> MaxShortReads, reads |-> FALSE]

NoPrev == [nranges |-> 0, result |-> "none", status |-> 0, headers |-> NoHeaders,
           started |-> FALSE, seeked |-> -1, written |-> 0, count |-> 0]

reqvars == <<req, env, reqno, variant, prev>>
locals == <<start, count, len, do_range>>
dirvars == <<dirents, rows>>
getvars == <<build, start, count, len, do_range, started, seeked, written, io, dirents, rows>>

\* the handler returns r
Return(r) == result' = r /\ pc' = "done"

\* the builds the handler may have been compiled as, once an overflow happens
BuildChoices(ovf) ==
    IF ovf /\ build = "unknown" THEN {"checked", "wrapping"} ELSE {build}

----------------------------------------------------------------------------
(* handle_get *)

head == req.method = "HEAD"

\* let meta = self.fs.metadata(&path).map_err(|e| fserror(&mut res, e))?;
GetMetadata ==
    /\ pc = "metadata"
    /\ IF env.kind = "meta_err"
         THEN status' = 404 /\ Return("err_fs")
         ELSE pc' = "is_dir" /\ UNCHANGED <<status, result>>
    /\ UNCHANGED <<reqvars, build, locals, headers, started, seeked, written, io, dirvars, rep>>

\* if meta.is_dir() { return self.handle_dirlist(req, res, &path, head); }
IsDir ==
    /\ pc = "is_dir"
    /\ pc' = IF env.kind = "dir" THEN "dirlist" ELSE "open"
    /\ UNCHANGED <<reqvars, build, locals, status, headers, result, started, seeked,
                   written, io, dirvars, rep>>

\* open the file, re-read its metadata, refuse what is no regular file;
\* start = 0, count = len = meta.len(), do_range = true
OpenFile ==
    /\ pc = "open"
    /\ CASE env.kind \in {"open_err", "fmeta_err"} ->
              /\ status' = 404 /\ Return("err_fs")
              /\ UNCHANGED locals
         [] env.kind = "special" ->
              /\ status' = 405 /\ Return("err_status")
              /\ UNCHANGED locals
         [] OTHER ->
              /\ start' = 0 /\ count' = env.len /\ len' = env.len /\ do_range' = TRUE
              /\ pc' = "if_range"
              /\ UNCHANGED <<status, result>>
    /\ UNCHANGED <<reqvars, build, headers, started, seeked, written, io, dirvars, rep>>

\* IfRange that evaluates the header and drops the verdict
IfRangeVerdictDropped ==
    /\ pc = "if_range"
    /\ IF req.if_range /\ ~env.has_mtime
         THEN Return("panic")
         ELSE pc' = "range" /\ UNCHANGED result
    /\ UNCHANGED <<reqvars, build, locals, status, headers, started,
                   seeked, written, io, dirvars, rep>>

\* if let Some(r) = If-Range { do_range = ifrange_match(&r, &file_etag, meta.modified().unwrap()) }
IfRange ==
    /\ pc = "if_range"
    /\ IF req.if_range
         THEN IF env.has_mtime
                THEN do_range' = env.ifrange_match /\ pc' = "range" /\ UNCHANGED result
                ELSE Return("panic") /\ UNCHANGED do_range
         ELSE pc' = "range" /\ UNCHANGED <<do_range, result>>
    /\ UNCHANGED <<reqvars, build, start, count, len, status, headers, started,
                   seeked, written, io, dirvars, rep>>

\* SpecWindow with the off-by-one a From-To count invites (e - s for e - s + 1)
SpecWindowNoPlusOne(r, l) ==
    CASE r.kind = "FromTo" ->
           [start |-> r.a, count |-> WSub(r.b, r.a), ovf |-> SubOverflows(r.b, r.a)]
      [] r.kind = "AllFrom" ->
           [start |-> r.a, count |-> WSub(l, r.a), ovf |-> SubOverflows(l, r.a)]
      [] OTHER ->
           [start |-> WSub(l, r.a), count |-> r.a, ovf |-> SubOverflows(l, r.a)]

\* the match on &ranges[0]: the start and count as the wrapping arithmetic
\* gives them, and whether the exact result overflowed
SpecWindow(r, l) ==
    CASE r.kind = "FromTo" ->
           [start |-> r.a, count |-> WAdd(WSub(r.b, r.a), 1),
            ovf |-> SubOverflows(r.b, r.a) \/ AddOverflows(r.b - r.a, 1)]
      [] r.kind = "AllFrom" ->
           [start |-> r.a, count |-> WSub(l, r.a), ovf |-> SubOverflows(l, r.a)]
      [] OTHER ->
           [start |-> WSub(l, r.a), count |-> r.a, ovf |-> SubOverflows(l, r.a)]

\* SingleRange that serves the first of several ranges
SingleRangeFirst(r) == r.present /\ r.bytes /\ Len(r.ranges) >= 1

\* if ranges.len() == 1
SingleRange(r) == r.present /\ r.bytes /\ Len(r.ranges) = 1

\* if start + count > len { count = len - start; }
Clamp(s, c, l) == IF WAdd(s, c) > l THEN l - s ELSE c

\* if do_range { ... }: resolve a single range, 416 when it starts at or past the end
RangeResolve ==
    /\ pc = "range"
    /\ IF do_range /\ SingleRange(req.range)
         THEN LET w == SpecWindow(req.range.ranges[1], len)
                  ovf == w.ovf \/ (w.start < len /\ AddOverflows(w.start, w.count))
              IN  \E b \in BuildChoices(ovf) :
                     /\ build' = b
                     /\ IF ovf /\ b = "checked"
                          THEN /\ Return("panic")
                               /\ UNCHANGED <<start, count, do_range, status>>
                          ELSE IF w.start >= len
                                 THEN /\ start' = w.start /\ count' = w.count
                                      /\ status' = 416 /\ Return("err_status")
                                      /\ UNCHANGED do_range
                                 ELSE /\ start' = w.start
                                      /\ count' = Clamp(w.start, w.count, len)
                                      /\ do_range' = TRUE
                                      /\ pc' = "validators"
                                      /\ UNCHANGED <<status, result>>
         ELSE /\ do_range' = FALSE
              /\ pc' = "validators"
              /\ UNCHANGED <<build, start, count, status, result>>
    /\ UNCHANGED <<reqvars, len, headers, started, seeked, written, io, dirvars, rep>>

\* set Last-Modified (when the file has one) and ETag
SetValidators ==
    /\ pc = "validators"
    /\ headers' = [headers EXCEPT !.LastModified = env.has_mtime, !.ETag = TRUE]
    /\ pc' = "if_match"
    /\ UNCHANGED <<reqvars, build, locals, status, result, started, seeked, written,
                   io, dirvars, rep>>

\* if let Some(s) = conditional::if_match(..) { return Err(statuserror(&mut res, s)); }
IfMatch ==
    /\ pc = "if_match"
    /\ IF env.if_match # 0
         THEN status' = env.if_match /\ Return("err_status")
         ELSE pc' = "seek" /\ UNCHANGED <<status, result>>
    /\ UNCHANGED <<reqvars, build, locals, headers, started, seeked, written, io, dirvars, rep>>

\* format!("bytes {}-{}/{}", start, start + count - 1, len)
ContentRange(s, c, l) == <<s, WSub(WAdd(s, c), 1), l>>

\* if do_range { seek; Content-Range; 206 } else { 200 }
SeekAndStatus ==
    /\ pc = "seek"
    /\ IF do_range
         THEN IF ~env.seek_ok
                THEN /\ status' = 416 /\ Return("ok")
                     /\ UNCHANGED <<build, headers, seeked>>
                ELSE LET ovf == AddOverflows(start, count)
                                   \/ SubOverflows(WAdd(start, count), 1)
                     IN  \E b \in BuildChoices(ovf) :
                            /\ build' = b
                            /\ seeked' = start
                            /\ IF ovf /\ b = "checked"
                                 THEN Return("panic") /\ UNCHANGED <<status, headers>>
                                 ELSE /\ headers' = [headers EXCEPT !.ContentRange =
                                                        ContentRange(start, count, len)]
                                      /\ status' = 206
                                      /\ pc' = "content"
                                      /\ UNCHANGED result
         ELSE /\ status' = 200
              /\ pc' = "content"
              /\ UNCHANGED <<build, headers, seeked, result>>
    /\ UNCHANGED <<reqvars, locals, started, written, io, dirvars, rep>>

\* SetContentHeaders that leaves Content-Length to the requests that send a body
SetContentHeadersBodyOnly ==
    /\ pc = "content"
    /\ headers' = [headers EXCEPT !.ContentType = "mime",
                                  !.ContentLength = IF head THEN -1 ELSE count,
                                  !.AcceptRanges = TRUE]
    /\ pc' = "head"
    /\ UNCHANGED <<reqvars, build, locals, status, result, started, seeked, written,
                   io, dirvars, rep>>

\* Content-Type, Content-Length = count, Accept-Ranges: bytes
SetContentHeaders ==
    /\ pc = "content"
    /\ headers' = [headers EXCEPT !.ContentType = "mime", !.ContentLength = count,
                                  !.AcceptRanges = TRUE]
    /\ pc' = "head"
    /\ UNCHANGED <<reqvars, build, locals, status, result, started, seeked, written,
                   io, dirvars, rep>>

\* if head { .. }  else  let mut writer = res.start();
HeadOrStart ==
    /\ pc = "head"
    /\ IF head
         THEN pc' = "no_body" /\ UNCHANGED started
         ELSE started' = TRUE /\ pc' = "stream"
    /\ UNCHANGED <<reqvars, build, locals, status, headers, result, seeked, written, io,
                   dirvars, rep>>

\* return Ok(()) of a HEAD request
HeadReturn ==
    /\ pc = "no_body"
    /\ Return("ok")
    /\ UNCHANGED <<reqvars, build, locals, status, headers, started, seeked, written, io,
                   dirvars, rep>>

\* Chunk without the clipping of n to count
ChunkNoClip(r, c) ==
    IF r = 0
      THEN [n |-> IF c > ZeroLen THEN ZeroLen ELSE c, data |-> "zero"]
      ELSE [n |-> r, data |-> "buffer"]

\* the chunk one iteration writes after file.read returned r:
\* n clipped to count, and the zero block when nothing was read
Chunk(r, c) ==
    LET n == IF r > c THEN c ELSE r
    IN  IF n = 0
          THEN [n |-> IF c > ZeroLen THEN ZeroLen ELSE c, data |-> "zero"]
          ELSE [n |-> n, data |-> "buffer"]

\* one iteration of while count > 0 { read; clip; pad; count -= n; write_all }
StreamChunk ==
    /\ pc = "stream"
    /\ count > 0
    /\ \E r \in ReadRets :
          /\ (r > 0 /\ r < ZeroLen) => io.short_left > 0
          /\ LET ch == Chunk(r, count)
             IN  /\ count' = count - ch.n
                 /\ written' = written + ch.n
                 /\ io' = [last_read |-> r, last_data |-> ch.data, last_n |-> ch.n,
                           short_left |-> IF r > 0 /\ r < ZeroLen
                                            THEN io.short_left - 1 ELSE io.short_left,
                           reads |-> TRUE]
    /\ UNCHANGED <<reqvars, build, start, len, do_range, status, headers, result,
                   started, seeked, pc, dirvars, rep>>

\* ReadError that turns the failure into an error status
ReadErrorSetsStatus ==
    /\ pc = "stream"
    /\ count > 0
    /\ io' = [io EXCEPT !.reads = TRUE]
    /\ status' = 500
    /\ Return("err_io")
    /\ UNCHANGED <<reqvars, build, locals, headers, started, seeked, written,
                   dirvars, rep>>

\* file.read(&mut buffer[..])? fails
ReadError ==
    /\ pc = "stream"
    /\ count > 0
    /\ io' = [io EXCEPT !.reads = TRUE]
    /\ Return("err_io")
    /\ UNCHANGED <<reqvars, build, locals, status, headers, started, seeked, written,
                   dirvars, rep>>

\* writer.write_all(data)? fails, after count -= n
WriteError ==
    /\ pc = "stream"
    /\ count > 0
    /\ \E r \in ReadRets :
          /\ (r > 0 /\ r < ZeroLen) => io.short_left > 0
          /\ LET ch == Chunk(r, count)
             IN  /\ count' = count - ch.n
                 /\ io' = [io EXCEPT !.last_read = r, !.reads = TRUE]
    /\ Return("err_io")
    /\ UNCHANGED <<reqvars, build, start, len, do_range, status, headers, started,
                   seeked, written, dirvars, rep>>

\* the loop ends: Ok(())
StreamEnd ==
    /\ pc = "stream"
    /\ count = 0
    /\ Return("ok")
    /\ UNCHANGED <<reqvars, build, locals, status, headers, started, seeked, written,
                   io, dirvars, rep>>

----------------------------------------------------------------------------
(* handle_dirlist *)

\* entry names as bytes:  ".a"  "a"  "ab"  and a name that is no UTF-8
NamePool == {<<46, 97>>, <<97>>, <<97, 98>>, <<200>>}

\* what read_dir can return for one entry: whether it is a symlink, what
\* dirent.metadata() gives and what fs.metadata(npath) gives ("err" when it fails)
EntryShapes ==
    { [symlink |-> FALSE, meta |-> "file",  target |-> "file", len |-> 5, has_mtime |-> TRUE],
      [symlink |-> FALSE, meta |-> "dir",   target |-> "dir",  len |-> 0, has_mtime |-> TRUE],
      [symlink |-> FALSE, meta |-> "other", target |-> "other", len |-> 3, has_mtime |-> FALSE],
      [symlink |-> FALSE, meta |-> "err",   target |-> "err",  len |-> 0, has_mtime |-> FALSE],
      [symlink |-> TRUE,  meta |-> "other", target |-> "dir",  len |-> 0, has_mtime |-> TRUE] }

MkEntry(n, sh) ==
    [name |-> n, symlink |-> sh.symlink, meta |-> sh.meta, target |-> sh.target,
     len |-> sh.len, has_mtime |-> sh.has_mtime]

\* the sequences of distinctly named entries read_dir may return
RECURSIVE EntryLists(_)
EntryLists(k) ==
    IF k = 0 THEN {<<>>}
    ELSE LET shorter == EntryLists(k - 1)
         IN  shorter \cup
             { Append(l, MkEntry(n, sh)) :
                 l \in {m \in shorter : Len(m) = k - 1},
                 n \in NamePool, sh \in EntryShapes }

DistinctNames(l) == \A i, j \in 1 .. Len(l) : i # j => l[i].name # l[j].name

DirEnvs ==
    { [kind |-> "dir", slash |-> TRUE, len |-> 0, has_mtime |-> TRUE, seek_ok |-> TRUE,
       readdir_ok |-> TRUE, entries |-> l, ifrange_match |-> FALSE, if_match |-> 0] :
        l \in {m \in EntryLists(MaxEntries) : DistinctNames(m)} }
    \cup
    { [kind |-> "dir", slash |-> sl, len |-> 0, has_mtime |-> TRUE, seek_ok |-> TRUE,
       readdir_ok |-> ok, entries |-> <<>>, ifrange_match |-> FALSE, if_match |-> 0] :
        sl \in BOOLEAN, ok \in BOOLEAN }

\* if !path.is_collection() { Location; Content-Length: 0; 302; return Ok(()) }
DirRedirect ==
    /\ pc = "dirlist"
    /\ IF ~env.slash
         THEN /\ headers' = [headers EXCEPT !.Location = TRUE, !.ContentLength = 0]
              /\ status' = 302
              /\ Return("ok")
         ELSE pc' = "read_dir" /\ UNCHANGED <<headers, status, result>>
    /\ UNCHANGED <<reqvars, build, locals, started, seeked, written, io, dirvars, rep>>

\* read_dir or bail; Content-Type: text/html; 200
ReadDir ==
    /\ pc = "read_dir"
    /\ IF ~env.readdir_ok
         THEN status' = 404 /\ Return("err_fs") /\ UNCHANGED headers
         ELSE /\ headers' = [headers EXCEPT !.ContentType = "html"]
              /\ status' = 200
              /\ pc' = "dir_head"
              /\ UNCHANGED result
    /\ UNCHANGED <<reqvars, build, locals, started, seeked, written, io, dirvars, rep>>

\* if head { .. }  else  BufWriter::new(res.start())
DirHeadOrStart ==
    /\ pc = "dir_head"
    /\ IF head
         THEN pc' = "no_body" /\ UNCHANGED started
         ELSE started' = TRUE /\ pc' = "dir_build"
    /\ UNCHANGED <<reqvars, build, locals, status, headers, result, seeked, written, io,
                   dirvars, rep>>

\* name.starts_with(b".")
Hidden(n) == Len(n) > 0 /\ n[1] = 46

\* the metadata the listing uses: through the link for a symlink
ResolvedMeta(e) == IF e.symlink THEN e.target ELSE e.meta

\* String::from_utf8_lossy: a byte that is no ASCII becomes U+FFFD
Lossy(n) == [i \in 1 .. Len(n) |-> IF n[i] > 127 THEN 65533 ELSE n[i]]

\* Dirent { path, name, meta } of one entry, '/' pushed on both for a directory
MkDirent(e) ==
    LET isdir == ResolvedMeta(e) = "dir"
    IN  [path |-> [segment |-> e.name, slash |-> isdir],
         name |-> Lossy(IF isdir THEN Append(e.name, 47) ELSE e.name),
         meta |-> [kind |-> ResolvedMeta(e), len |-> e.len, has_mtime |-> e.has_mtime]]

\* for dirent in entries { skip hidden; resolve metadata; push unless it failed }
RECURSIVE CollectDirents(_)
CollectDirents(es) ==
    IF es = <<>> THEN <<>>
    ELSE LET e == Head(es)
             rest == CollectDirents(Tail(es))
         IN  IF Hidden(e.name) \/ ResolvedMeta(e) = "err"
               THEN rest
               ELSE <<MkDirent(e)>> \o rest

\* (a.name).cmp(&b.name): lexicographic on the code points
RECURSIVE NameCmp(_, _)
NameCmp(a, b) ==
    IF a = <<>> /\ b = <<>> THEN "Equal"
    ELSE IF a = <<>> THEN "Less"
    ELSE IF b = <<>> THEN "Greater"
    ELSE IF Head(a) < Head(b) THEN "Less"
    ELSE IF Head(a) > Head(b) THEN "Greater"
    ELSE NameCmp(Tail(a), Tail(b))

\* DirentCmp without the directories-first rule
DirentCmpNamesOnly(a, b) == NameCmp(a.name, b.name)

\* the closure given to sort_by
DirentCmp(a, b) ==
    LET adir == a.meta.kind = "dir"
        bdir == b.meta.kind = "dir"
    IN  IF adir /\ ~bdir THEN "Less"
        ELSE IF bdir /\ ~adir THEN "Greater"
        ELSE NameCmp(a.name, b.name)

\* sort_by is a stable sort: x goes after every element that is not Greater
RECURSIVE InsertSorted(_, _)
InsertSorted(x, l) ==
    IF l = <<>> THEN <<x>>
    ELSE IF DirentCmp(Head(l), x) = "Greater" THEN <<x>> \o l
    ELSE <<Head(l)>> \o InsertSorted(x, Tail(l))

RECURSIVE SortDirents(_)
SortDirents(l) ==
    IF l = <<>> THEN <<>>
    ELSE InsertSorted(l[Len(l)], SortDirents(SubSeq(l, 1, Len(l) - 1)))

\* collect the entries into dirents and sort them
BuildDirents ==
    /\ pc = "dir_build"
    /\ dirents' = SortDirents(CollectDirents(env.entries))
    /\ pc' = "dir_prolog"
    /\ UNCHANGED <<reqvars, build, locals, status, headers, result, started, seeked,
                   written, io, rows, rep>>

\* the head of the document, up to the Parent Directory row
WriteProlog ==
    /\ pc = "dir_prolog"
    /\ pc' = "dir_rows"
    /\ UNCHANGED <<reqvars, build, locals, status, headers, result, started, seeked,
                   written, io, dirvars, rep>>

\* htmlescape::encode_minimal:  "  &  '  <  >  become entities
RECURSIVE EncodeMinimal(_)
EncodeMinimal(n) ==
    IF n = <<>> THEN <<>>
    ELSE LET c == Head(n)
             e == CASE c = 34 -> <<38, 113, 117, 111, 116, 59>>
                    [] c = 38 -> <<38, 97, 109, 112, 59>>
                    [] c = 39 -> <<38, 35, 120, 50, 55, 59>>
                    [] c = 60 -> <<38, 108, 116, 59>>
                    [] c = 62 -> <<38, 103, 116, 59>>
                    [] OTHER -> <<c>>
         IN  e \o EncodeMinimal(Tail(n))

\* one table row: href, escaped name, modification stamp, size or [DIR]
Row(d) ==
    [href |-> d.path,
     name |-> EncodeMinimal(d.name),
     modified |-> IF d.meta.has_mtime THEN "stamp" ELSE "",
     size |-> IF d.meta.kind = "file" THEN d.meta.len ELSE -1]

\* for dirent in &dirents { writeln!(row) }
WriteRow ==
    /\ pc = "dir_rows"
    /\ Len(rows) < Len(dirents)
    /\ rows' = Append(rows, Row(dirents[Len(rows) + 1]))
    /\ UNCHANGED <<reqvars, build, locals, status, headers, result, started, seeked,
                   written, io, dirents, pc, rep>>

\* the closing rows of the document, Ok(())
WriteEpilog ==
    /\ pc = "dir_rows"
    /\ Len(rows) = Len(dirents)
    /\ Return("ok")
    /\ UNCHANGED <<reqvars, build, locals, status, headers, started, seeked, written,
                   io, dirvars, rep>>

\* a writeln!(w, ..)? fails
DirWriteError ==
    /\ pc \in {"dir_prolog", "dir_rows"}
    /\ Return("err_io")
    /\ UNCHANGED <<reqvars, build, locals, status, headers, started, seeked, written,
                   io, dirvars, rep>>

----------------------------------------------------------------------------
(* handle_report *)

\* text of an href element: none at all, text that is no path, or a path
HrefTexts == {"none", "bad", "h1", "h2"}

RECURSIVE HrefLists(_)
HrefLists(k) ==
    IF k = 0 THEN {<<>>}
    ELSE LET shorter == HrefLists(k - 1)
         IN  shorter \cup
             { Append(l, t) : l \in {m \in shorter : Len(m) = k - 1}, t \in HrefTexts }

\* request bodies: empty, not XML, XML with another root, an
\* addressbook-multiget with or without a prop child and with href children
ReportBodies ==
    [kind : {"empty", "malformed", "wrongroot"}, has_prop : {FALSE}, props : {{}},
     hrefs : {<<>>}]
    \cup
    [kind : {"multiget"}, has_prop : {FALSE}, props : {{}}, hrefs : HrefLists(MaxHrefs)]
    \cup
    [kind : {"multiget"}, has_prop : {TRUE}, props : {{}, {"getetag"}},
     hrefs : HrefLists(MaxHrefs)]

ReportRequests ==
    [method : {"REPORT"}, depth : {"absent", "0", "1", "infinity"}, litmus : BOOLEAN,
     body : ReportBodies]

\* the verdicts of PropWriter::new for the request
ReportEnvs == [kind : {"report"}, pw_ok : BOOLEAN]

NoRep ==
    [depth |-> "", parsed |-> FALSE, name |-> "", props |-> {}, list_href |-> <<>>,
     body |-> "empty", ppc |-> "idle", idx |-> 0, calls |-> <<>>, chan |-> <<>>,
     received |-> <<>>, consumer |-> "open", presult |-> "none", failed |-> <<>>]

\* CheckDepth that rejects Depth: infinity only, and takes a missing Depth
\* header for infinity
CheckDepthInfinityOnly ==
    /\ pc = "report"
    /\ LET h == [headers EXCEPT !.CacheControl = TRUE, !.Pragma = TRUE]
       IN  IF req.depth = "infinity" /\ ~req.litmus
             THEN /\ headers' = [h EXCEPT !.ContentType = "xml"]
                  /\ status' = 403
                  /\ rep' = [rep EXCEPT !.body = "propfind-finite-depth"]
                  /\ Return("ok")
             ELSE /\ headers' = h
                  /\ rep' = [rep EXCEPT !.depth =
                                IF req.depth = "absent" THEN "infinity" ELSE req.depth]
                  /\ pc' = "parse"
                  /\ UNCHANGED <<status, result>>
    /\ UNCHANGED <<reqvars, getvars>>

\* Cache-Control and Pragma; the Depth header; 403 for an unbounded depth
\* without the litmus header
CheckDepth ==
    /\ pc = "report"
    /\ LET h == [headers EXCEPT !.CacheControl = TRUE, !.Pragma = TRUE]
       IN  IF req.depth \in {"infinity", "absent"} /\ ~req.litmus
             THEN /\ headers' = [h EXCEPT !.ContentType = "xml"]
                  /\ status' = 403
                  /\ rep' = [rep EXCEPT !.body = "propfind-finite-depth"]
                  /\ Return("ok")
             ELSE /\ headers' = h
                  /\ rep' = [rep EXCEPT !.depth =
                                IF req.depth = "absent" THEN "infinity" ELSE req.depth]
                  /\ pc' = "parse"
                  /\ UNCHANGED <<status, result>>
    /\ UNCHANGED <<reqvars, getvars>>

\* PropSelector that takes a body without a prop child for an allprop request
PropSelectorAllpropDefault(b) ==
    IF b.kind = "empty" THEN [ok |-> TRUE, name |-> "allprop", props |-> {}]
    ELSE IF b.has_prop THEN [ok |-> TRUE, name |-> "prop", props |-> b.props]
    ELSE [ok |-> TRUE, name |-> "allprop", props |-> {}]

\* let (name, props) = match root.clone() { .. }
PropSelector(b) ==
    IF b.kind = "empty" THEN [ok |-> TRUE, name |-> "allprop", props |-> {}]
    ELSE IF b.has_prop THEN [ok |-> TRUE, name |-> "prop", props |-> b.props]
    ELSE [ok |-> FALSE, name |-> "", props |-> {}]

\* let list_href = match root { .. }
ListHref(b) == IF b.kind = "empty" THEN <<>> ELSE b.hrefs

\* parse the body when it is not empty; the property selector; the hrefs
ParseBody ==
    /\ pc = "parse"
    /\ LET b == req.body
           sel == PropSelector(b)
       IN  IF b.kind \in {"malformed", "wrongroot"}
             THEN rep' = [rep EXCEPT !.parsed = TRUE] /\ Return("err_xml")
             ELSE IF ~sel.ok
               THEN rep' = [rep EXCEPT !.parsed = TRUE] /\ Return("err_xml")
               ELSE /\ rep' = [rep EXCEPT !.parsed = (b.kind # "empty"),
                                          !.name = sel.name, !.props = sel.props,
                                          !.list_href = ListHref(b)]
                    /\ pc' = "propwriter"
                    /\ UNCHANGED result
    /\ UNCHANGED <<reqvars, getvars, status, headers>>

\* PropWriter::new(..)?; the body becomes the stream the producer feeds; Ok(res)
NewPropWriter ==
    /\ pc = "propwriter"
    /\ IF ~env.pw_ok
         THEN Return("err_status") /\ UNCHANGED rep
         ELSE /\ rep' = [rep EXCEPT !.body = "stream", !.ppc = "loop", !.idx = 1]
              /\ Return("ok")
    /\ UNCHANGED <<reqvars, getvars, status, headers>>

\* the producer ends with r
Finish(r) == rep' = [rep EXCEPT !.ppc = "done", !.presult = r]

Call(op) == Append(rep.calls, <<op, rep.idx>>)

\* the '?' of a step: op failed with the error e, which ends the producer;
\* cs is the list of collaborator calls made so far
Fail(op, e, cs) ==
    rep' = [rep EXCEPT !.ppc = "done", !.presult = e, !.calls = cs,
                       !.failed = <<op, IF op = "close" THEN 0 ELSE rep.idx>>]

\* LoopHead that enumerates the hrefs whatever the depth
LoopHeadAnyDepth ==
    /\ pc = "done" /\ rep.ppc = "loop"
    /\ rep' = [rep EXCEPT !.ppc =
                  IF rep.idx <= Len(rep.list_href) THEN "url" ELSE "close"]
    /\ UNCHANGED <<reqvars, getvars, pc, status, headers, result>>

\* if depth != Zero { for e in list_href.iter() { .. } }  pw.close()
LoopHead ==
    /\ pc = "done" /\ rep.ppc = "loop"
    /\ rep' = [rep EXCEPT !.ppc =
                  IF rep.depth # "0" /\ rep.idx <= Len(rep.list_href)
                    THEN "url" ELSE "close"]
    /\ UNCHANGED <<reqvars, getvars, pc, status, headers, result>>

\* e.get_text().unwrap();  DavPath::from_str_and_prefix(..).map_err(|_| InvalidPath)?
HrefToPath ==
    /\ pc = "done" /\ rep.ppc = "url"
    /\ LET t == rep.list_href[rep.idx]
       IN  CASE t = "none" -> Finish("panic")
             [] t = "bad" -> Fail("path", "err_invalid_path", rep.calls)
             [] OTHER -> rep' = [rep EXCEPT !.ppc = "patch_path"]
    /\ UNCHANGED <<reqvars, getvars, pc, status, headers, result>>

\* self.fs.patch_path(&url).await?
PatchPath ==
    /\ pc = "done" /\ rep.ppc = "patch_path"
    /\ \E ok \in BOOLEAN :
          IF ok THEN rep' = [rep EXCEPT !.ppc = "metadata", !.calls = Call("patch_path")]
          ELSE Fail("patch_path", "err_fs", Call("patch_path"))
    /\ UNCHANGED <<reqvars, getvars, pc, status, headers, result>>

\* Metadata that skips an href whose metadata cannot be read and goes on
MetadataSkipsOnError ==
    /\ pc = "done" /\ rep.ppc = "metadata"
    /\ \E ok \in BOOLEAN :
          IF ok THEN rep' = [rep EXCEPT !.ppc = "write_props", !.calls = Call("metadata")]
          ELSE rep' = [rep EXCEPT !.ppc = "loop", !.idx = rep.idx + 1,
                                  !.calls = Call("metadata"),
                                  !.failed = <<"metadata", rep.idx>>]
    /\ UNCHANGED <<reqvars, getvars, pc, status, headers, result>>

\* self.fs.metadata(&url).await?
Metadata ==
    /\ pc = "done" /\ rep.ppc = "metadata"
    /\ \E ok \in BOOLEAN :
          IF ok THEN rep' = [rep EXCEPT !.ppc = "write_props", !.calls = Call("metadata")]
          ELSE Fail("metadata", "err_fs", Call("metadata"))
    /\ UNCHANGED <<reqvars, getvars, pc, status, headers, result>>

\* WriteProps that leaves the flush out and goes on to the next href
WritePropsNoFlush ==
    /\ pc = "done" /\ rep.ppc = "write_props"
    /\ \E ok \in BOOLEAN :
          IF ok THEN rep' = [rep EXCEPT !.ppc = "loop", !.idx = rep.idx + 1,
                                       !.calls = Call("write_props")]
          ELSE Fail("write_props", "err_write", Call("write_props"))
    /\ UNCHANGED <<reqvars, getvars, pc, status, headers, result>>

\* pw.write_props(&url, meta).await?
WriteProps ==
    /\ pc = "done" /\ rep.ppc = "write_props"
    /\ \E ok \in BOOLEAN :
          IF ok THEN rep' = [rep EXCEPT !.ppc = "flush", !.calls = Call("write_props")]
          ELSE Fail("write_props", "err_write", Call("write_props"))
    /\ UNCHANGED <<reqvars, getvars, pc, status, headers, result>>

\* Flush that ignores a failed send and goes on to the next href
FlushIgnoresSendError ==
    /\ pc = "done" /\ rep.ppc = "flush"
    /\ IF rep.consumer = "dropped"
         THEN rep' = [rep EXCEPT !.ppc = "loop", !.idx = rep.idx + 1,
                                 !.calls = Call("flush")]
         ELSE /\ rep.chan = <<>>
              /\ rep' = [rep EXCEPT !.ppc = "loop", !.idx = rep.idx + 1,
                                    !.calls = Call("flush"),
                                    !.chan = Append(rep.chan, rep.idx)]
    /\ UNCHANGED <<reqvars, getvars, pc, status, headers, result>>

\* pw.flush().await?: the chunk goes to the channel, or the send fails because
\* the consumer dropped the body
Flush ==
    /\ pc = "done" /\ rep.ppc = "flush"
    /\ IF rep.consumer = "dropped"
         THEN Fail("flush", "err_send", Call("flush"))
         ELSE /\ rep.chan = <<>>
              /\ rep' = [rep EXCEPT !.ppc = "loop", !.idx = rep.idx + 1,
                                    !.calls = Call("flush"),
                                    !.chan = Append(rep.chan, rep.idx)]
    /\ UNCHANGED <<reqvars, getvars, pc, status, headers, result>>

\* pw.close().await?;  Ok(())
Close ==
    /\ pc = "done" /\ rep.ppc = "close"
    /\ IF rep.consumer = "dropped"
         THEN Fail("close", "err_send", Append(rep.calls, <<"close", 0>>))
         ELSE /\ rep.chan = <<>>
              /\ rep' = [rep EXCEPT !.ppc = "done", !.presult = "ok",
                                    !.calls = Append(rep.calls, <<"close", 0>>),
                                    !.chan = Append(rep.chan, 0)]
    /\ UNCHANGED <<reqvars, getvars, pc, status, headers, result>>

\* the transport takes the next chunk of the body
ConsumerRecv ==
    /\ pc = "done" /\ rep.body = "stream"
    /\ rep.consumer = "open" /\ rep.chan # <<>>
    /\ rep' = [rep EXCEPT !.chan = Tail(rep.chan),
                          !.received = Append(rep.received, Head(rep.chan))]
    /\ UNCHANGED <<reqvars, getvars, pc, status, headers, result>>

\* the transport drops the body (the client went away)
ConsumerDrop ==
    /\ pc = "done" /\ rep.body = "stream"
    /\ rep.consumer = "open" /\ rep.ppc # "done"
    /\ rep' = [rep EXCEPT !.consumer = "dropped", !.chan = <<>>]
    /\ UNCHANGED <<reqvars, getvars, pc, status, headers, result>>

----------------------------------------------------------------------------
(* The server *)

\* the handler's state before it runs
Fresh ==
    /\ start = 0 /\ count = 0 /\ len = 0 /\ do_range = FALSE
    /\ status = 0 /\ headers = NoHeaders /\ result = "none"
    /\ started = FALSE /\ seeked = -1 /\ written = 0 /\ io = NoIo
    /\ dirents = <<>> /\ rows = <<>> /\ rep = NoRep

InitCommon ==
    /\ build = "unknown" /\ reqno = 1 /\ variant = "none" /\ prev = NoPrev
    /\ Fresh

\* a GET or HEAD request arrives
Init ==
    /\ \/ req \in GetRequests /\ env \in FileEnvs
             /\ (~req.if_range => ~env.ifrange_match)
       \/ req \in PlainRequests /\ env \in OtherEnvs \cup DirEnvs
    /\ pc = "metadata"
    /\ InitCommon

\* a REPORT request arrives
InitReport ==
    /\ req \in ReportRequests /\ env \in ReportEnvs
    /\ pc = "report"
    /\ InitCommon

\* the follow-up requests: the same request as HEAD, or without its Range header
FollowUps ==
    (IF req.method = "GET" THEN {"head"} ELSE {})
    \cup (IF req.range.present /\ ~SingleRange(req.range) THEN {"norange"} ELSE {})

\* the first request is answered; the same client sends the follow-up request
\* for the same, unchanged resource
NextRequest ==
    /\ pc = "done" /\ reqno = 1
    /\ \E v \in FollowUps :
          /\ variant' = v
          /\ req' = IF v = "head" THEN [req EXCEPT !.method = "HEAD"]
                    ELSE [req EXCEPT !.range = NoRange]
    /\ prev' = [nranges |-> Len(req.range.ranges), result |-> result, status |-> status, headers |-> headers,
                started |-> started, seeked |-> seeked, written |-> written,
                count |-> count]
    /\ reqno' = 2
    /\ pc' = "metadata"
    /\ start' = 0 /\ count' = 0 /\ len' = 0 /\ do_range' = FALSE
    /\ status' = 0 /\ headers' = NoHeaders /\ result' = "none"
    /\ started' = FALSE /\ seeked' = -1 /\ written' = 0 /\ io' = NoIo
    /\ dirents' = <<>> /\ rows' = <<>> /\ rep' = NoRep
    /\ UNCHANGED <<env, build>>

Next ==
    \/ GetMetadata
    \/ IsDir
    \/ OpenFile
    \/ IfRange
    \/ RangeResolve
    \/ SetValidators
    \/ IfMatch
    \/ SeekAndStatus
    \/ SetContentHeaders
    \/ HeadOrStart
    \/ HeadReturn
    \/ StreamChunk
    \/ ReadError
    \/ WriteError
    \/ StreamEnd
    \/ DirRedirect
    \/ ReadDir
    \/ DirHeadOrStart
    \/ BuildDirents
    \/ WriteProlog
    \/ WriteRow
    \/ WriteEpilog
    \/ DirWriteError
    \/ NextRequest

Spec == Init /\ [][Next]_vars

NextReport ==
    \/ CheckDepth
    \/ ParseBody
    \/ NewPropWriter
    \/ LoopHead
    \/ HrefToPath
    \/ PatchPath
    \/ Metadata
    \/ WriteProps
    \/ Flush
    \/ Close
    \/ ConsumerRecv
    \/ ConsumerDrop

SpecReport == InitReport /\ [][NextReport]_vars

----------------------------------------------------------------------------
(* Properties *)

IsFile == env.kind = "file"

\* the positions of handle_get before the Range header has been looked at
BeforeResolve == pc \in {"metadata", "is_dir", "open", "if_range", "range"}

\* the positions between range resolution and the body, where count is the
\* resolved count
PreStream == pc \in {"validators", "if_match", "seek", "content", "head", "no_body"}

\* the If-Range step left do_range set: no If-Range, or ifrange_match returned true
Honoured == IsFile /\ (~req.if_range \/ (env.has_mtime /\ env.ifrange_match))

\* a single range was resolved
Resolved == Honoured /\ SingleRange(req.range) /\ ~BeforeResolve

\* the handler returned Err(416) from the range resolution
Unsatisfiable == pc = "done" /\ result = "err_status" /\ status = 416

\* the cases of C1 and the window it states, in unbounded integers
C1_Case(r, l) ==
    CASE r.kind = "FromTo" -> r.a <= r.b /\ r.b < l
      [] r.kind = "AllFrom" -> r.a < l
      [] OTHER -> r.a <= l

C1_Window(r, l) ==
    CASE r.kind = "FromTo" -> [start |-> r.a, count |-> r.b - r.a + 1]
      [] r.kind = "AllFrom" -> [start |-> r.a, count |-> l - r.a]
      [] OTHER -> [start |-> l - r.a, count |-> r.a]

C1_WindowIs(w) ==
    /\ start = w.start
    /\ (PreStream \/ Unsatisfiable) => count = w.count

\* C1 as stated: in each case (Suffix-Length(0) included) the window is the
\* stated one and the response is 206 with Content-Length = count
C1_Original ==
    (Resolved /\ C1_Case(req.range.ranges[1], len)) =>
        LET w == C1_Window(req.range.ranges[1], len)
        IN  /\ C1_WindowIs(w)
            /\ pc = "done" => (status = 206 /\ headers.ContentLength = w.count)

\* C1 (amended): for an honoured single range on a regular file, From-To(s,e)
\* with s <= e < len resolves to {s, e-s+1}, Suffix-Length(n) with n <= len to
\* {len-n, n}, From(s) with s < len to {s, len-s}.  Suffix-Length(0) is answered
\* 416; every other case is answered 206 with Content-Length = count when the
\* If-Match check passes and the seek succeeds, with the conditional's status
\* when that check fails, and with 416 when the seek fails.
C1_RangeWindow ==
    (Resolved /\ C1_Case(req.range.ranges[1], len)) =>
        LET r == req.range.ranges[1]
            w == C1_Window(r, len)
        IN  /\ C1_WindowIs(w)
            /\ pc = "done" =>
                 IF r.kind = "Last" /\ r.a = 0
                   THEN status = 416 /\ result = "err_status" /\ headers = NoHeaders
                 ELSE IF env.if_match # 0
                   THEN status = env.if_match /\ result = "err_status"
                 ELSE IF ~env.seek_ok
                   THEN status = 416 /\ result = "ok"
                 ELSE /\ status = 206
                      /\ headers.ContentLength = w.count
                      /\ result \in {"ok", "err_io"}

\* a suffix range covering the whole file was served as 206
C1_Witness ==
    /\ Resolved
    /\ req.range.ranges[1] = Last(MaxLen)
    /\ len = MaxLen
    /\ pc = "done" /\ result = "ok" /\ status = 206
    /\ headers.ContentLength = MaxLen /\ seeked = 0
    /\ req.method = "GET" /\ written = MaxLen

\* C2 as stated: every honoured single range From-To(s,e) or From(s) with
\* s >= len ends with the 416 error, no body byte written, the file never read
C2_Unsatisfiable416 ==
    (/\ IsFile /\ Honoured /\ SingleRange(req.range)
     /\ req.range.ranges[1].kind \in {"FromTo", "AllFrom"}
     /\ req.range.ranges[1].a >= env.len
     /\ pc = "done") =>
        /\ status = 416 /\ result = "err_status"
        /\ ~started /\ written = 0 /\ ~io.reads

\* C3: with no I/O error the body is exactly Content-Length bytes: while the
\* loop runs written + count = Content-Length and count >= 0; every iteration
\* writes at least one byte (so the loop ends after at most Content-Length
\* iterations) and at the end written = Content-Length; an iteration whose
\* read returned 0 writes zero bytes only, at most 4096 of them
C3_ExactLength ==
    (IsFile /\ started /\ result \in {"none", "ok"}) =>
        /\ count >= 0
        /\ written + count = headers.ContentLength
        /\ (pc = "done" => written = headers.ContentLength)
        /\ io.last_read >= 0 => io.last_n >= 1
        /\ io.last_read = 0 => (io.last_data = "zero" /\ io.last_n <= ZeroLen)
        /\ io.last_read > 0 => (io.last_data = "buffer" /\ io.last_n <= io.last_read)

\* a transfer longer than the buffer ended with padding after a premature
\* end of data
C3_Witness ==
    /\ IsFile /\ started /\ pc = "done" /\ result = "ok"
    /\ headers.ContentLength = BufLen + 1
    /\ written = BufLen + 1
    /\ io.last_read = 0 /\ io.last_data = "zero" /\ io.last_n = ZeroLen

\* the phases of the spec's state machine
Phase ==
    CASE pc = "metadata" -> "Start"
      [] pc \in {"is_dir", "open"} -> "MetadataResolved"
      [] pc \in {"dirlist", "read_dir"} -> "DirList"
      [] pc \in {"if_range", "range", "validators", "if_match", "seek", "content"} ->
            "FileOpened"
      [] pc \in {"head", "dir_head"} -> "HeadersCommitted"
      [] pc = "no_body" -> "NoBody"
      [] pc \in {"stream", "dir_build", "dir_prolog", "dir_rows"} -> "Streaming"
      [] OTHER -> "Done"

PhaseEdges ==
    { <<"Start", "MetadataResolved">>,
      <<"MetadataResolved", "DirList">>, <<"MetadataResolved", "FileOpened">>,
      <<"DirList", "HeadersCommitted">>, <<"FileOpened", "HeadersCommitted">>,
      <<"HeadersCommitted", "NoBody">>, <<"HeadersCommitted", "Streaming">>,
      <<"NoBody", "Done">>, <<"Streaming", "Done">> }

\* the phases in which a failure aborts the request with an error response
BeforeCommit == {"Start", "MetadataResolved", "DirList", "FileOpened"}

\* C4: within one request the phases only advance along the spec's state
\* machine (a failure before HeadersCommitted goes straight to Done); after
\* res.start() status and headers never change; every step that sets an error
\* result other than an I/O error happens before HeadersCommitted; after it
\* the only failure is an I/O error
C4_HeadersFixed ==
    [][ reqno' = reqno =>
          /\ \/ Phase' = Phase
             \/ <<Phase, Phase'>> \in PhaseEdges
             \/ Phase \in BeforeCommit /\ Phase' = "Done" /\ result' # "none"
          /\ started => (started' /\ status' = status /\ headers' = headers)
          /\ Phase \in {"HeadersCommitted", "NoBody", "Streaming", "Done"} =>
                (status' = status /\ headers' = headers)
          /\ (result = "none" /\ result' \in {"err_status", "err_fs", "panic"}) =>
                (Phase \in BeforeCommit /\ ~started)
          /\ (result = "none" /\ result' # "none" /\ Phase \notin BeforeCommit) =>
                result' \in {"ok", "err_io"}
      ]_vars

\* a partial response failed while its body was streamed
C4_Witness ==
    /\ started /\ pc = "done" /\ result = "err_io"
    /\ status = 206 /\ written > 0

\* C5 as stated: the committed window of every 200 or 206 response
C5_Window ==
    (IsFile /\ status \in {200, 206} /\ headers.ContentLength # -1) =>
        LET cl == headers.ContentLength
        IN  /\ start + cl <= len
            /\ status = 206 =>
                 /\ start < len /\ cl >= 1
                 /\ headers.ContentRange = <<start, start + cl - 1, len>>
                 /\ start + cl - 1 < len
            /\ status = 200 =>
                 (start = 0 /\ cl = len /\ headers.ContentRange = <<>>)
            /\ len = 0 => status # 206

\* the two responses agree but for the I/O failures of their bodies
SameResult(a, b) == a = b \/ "err_io" \in {a, b}

\* C6: a Range header naming zero ranges or two or more is answered like the
\* same request without the header (same status, same headers, same file
\* offset, same body length): never 416 or 206, and 200 with Content-Length =
\* len and no Content-Range when the conditional checks pass
C6_MultiRangeIgnored ==
    /\ (IsFile /\ reqno = 1 /\ req.range.present /\ req.range.bytes
        /\ Len(req.range.ranges) # 1) =>
          /\ status \notin {416, 206}
          /\ seeked = -1
          /\ ((~req.if_range \/ env.has_mtime) /\ env.if_match = 0 /\ pc = "done") =>
                /\ status = 200 /\ result \in {"ok", "err_io"}
                /\ headers.ContentLength = len /\ headers.ContentRange = <<>>
                /\ (result = "ok" /\ ~head) => written = len
    /\ (IsFile /\ reqno = 2 /\ variant = "norange" /\ pc = "done") =>
          /\ status = prev.status
          /\ headers = prev.headers
          /\ seeked = prev.seeked
          /\ SameResult(result, prev.result)
          /\ (result = "ok" /\ prev.result = "ok") => written = prev.written

\* a request naming two ranges and its follow-up without Range were both
\* answered with the whole file
C6_Witness ==
    /\ IsFile /\ reqno = 2 /\ variant = "norange" /\ prev.nranges = 2
    /\ pc = "done" /\ result = "ok" /\ prev.result = "ok"
    /\ status = 200 /\ written = MaxLen /\ prev.written = MaxLen

\* ifrange_match was called and returned false
IfRangeFailed == IsFile /\ req.if_range /\ env.has_mtime /\ ~env.ifrange_match

\* what C7 states in every state: the Range header is not examined
C7_RangeIgnored ==
    /\ do_range = FALSE
    /\ start = 0
    /\ seeked = -1
    /\ headers.ContentRange = <<>>
    /\ status \notin {416, 206}
    /\ PreStream => count = len
    /\ headers.ContentLength # -1 => headers.ContentLength = len

\* C7 as stated: a present, non-matching If-Range always ends in the full-body
\* 200 response
C7_Original ==
    (IfRangeFailed /\ pc \notin {"metadata", "is_dir", "open", "if_range"}) =>
        /\ C7_RangeIgnored
        /\ pc = "done" => status = 200

\* C7 (amended): when If-Range is present and does not match, the Range header
\* is never examined: no 416, no 206, no seek, no Content-Range, count = len;
\* the response is the full-body 200 when the If-Match check passes and the
\* conditional's status when it fails
C7_IfRangeMismatch ==
    (IfRangeFailed /\ pc \notin {"metadata", "is_dir", "open", "if_range"}) =>
        /\ C7_RangeIgnored
        /\ pc = "done" =>
             IF env.if_match # 0
               THEN status = env.if_match /\ result = "err_status"
               ELSE status = 200 /\ result \in {"ok", "err_io"}

\* a satisfiable and an unsatisfiable range were both ignored
C7_Witness ==
    /\ IfRangeFailed /\ SingleRange(req.range)
    /\ req.range.ranges[1] = AllFrom(MaxLen + 1)
    /\ len = MaxLen
    /\ pc = "done" /\ result = "ok" /\ status = 200
    /\ ~head /\ written = MaxLen

\* what C8 states about the HEAD request itself
C8_HeadNoBody ==
    head =>
        (~started /\ written = 0 /\ rows = <<>> /\ ~io.reads)

\* C8 as stated: HEAD and GET end with the same status or error and the same
\* headers
C8_Original ==
    /\ C8_HeadNoBody
    /\ (reqno = 2 /\ variant = "head" /\ pc = "done") =>
          /\ result = prev.result
          /\ status = prev.status
          /\ headers = prev.headers

\* C8 (amended): HEAD and GET end with the same status and the same headers,
\* and with the same result, except that the GET may fail with an I/O error
\* after the body writer was started, where the HEAD returns Ok; the HEAD
\* never starts the body writer nor writes a body byte
C8_HeadLikeGet ==
    /\ C8_HeadNoBody
    /\ (reqno = 2 /\ variant = "head" /\ pc = "done") =>
          /\ status = prev.status
          /\ headers = prev.headers
          /\ \/ result = prev.result
             \/ prev.result = "err_io" /\ prev.started /\ result = "ok"

\* a HEAD following a GET of a byte range was answered 206 with the same headers
C8_Witness ==
    /\ reqno = 2 /\ variant = "head" /\ pc = "done"
    /\ status = 206 /\ prev.status = 206 /\ prev.written > 0
    /\ headers.ContentRange # <<>> /\ headers = prev.headers

\* a <= b in the lexicographic order of the code points
NameLeq(a, b) ==
    \/ Len(a) <= Len(b) /\ \A i \in 1 .. Len(a) : a[i] = b[i]
    \/ \E i \in 1 .. Min(Len(a), Len(b)) :
          /\ a[i] < b[i]
          /\ \A j \in 1 .. i - 1 : a[j] = b[j]

\* the entries the listing keeps: not hidden, metadata resolved
Retained == {i \in 1 .. Len(env.entries) :
               env.entries[i].name[1] # 46 /\ ResolvedMeta(env.entries[i]) # "err"}

\* the name the listing shows for an entry
DisplayName(e) ==
    LET n == IF ResolvedMeta(e) = "dir" THEN e.name \o <<47>> ELSE e.name
    IN  [i \in 1 .. Len(n) |-> IF n[i] < 128 THEN n[i] ELSE 65533]

\* C9: the rows are a permutation of the retained entries, every directory
\* before every other entry, each group ascending by display name, and the
\* rows are written in that order
C9_DirlistOrder ==
    (env.kind = "dir" /\ pc \in {"dir_prolog", "dir_rows", "done"} /\ started) =>
        /\ Len(dirents) = Cardinality(Retained)
        /\ \A i \in Retained :
              \E j \in 1 .. Len(dirents) :
                 /\ dirents[j].name = DisplayName(env.entries[i])
                 /\ dirents[j].path.segment = env.entries[i].name
                 /\ dirents[j].meta.kind = ResolvedMeta(env.entries[i])
        /\ \A i, j \in 1 .. Len(dirents) :
              i < j =>
                 /\ dirents[j].meta.kind = "dir" => dirents[i].meta.kind = "dir"
                 /\ (dirents[i].meta.kind = "dir") = (dirents[j].meta.kind = "dir")
                       => NameLeq(dirents[i].name, dirents[j].name)
        /\ Len(rows) <= Len(dirents)
        /\ \A i \in 1 .. Len(rows) : rows[i] = Row(dirents[i])
        /\ (pc = "done" /\ result = "ok") => Len(rows) = Len(dirents)

\* a file read before two directories is listed after them, the directories
\* in name order
C9_Witness ==
    /\ env.kind = "dir" /\ pc = "done" /\ result = "ok"
    /\ Len(env.entries) = 3
    /\ env.entries[1].meta = "file" /\ env.entries[1].name = <<200>>
    /\ env.entries[2].meta = "dir" /\ env.entries[2].name = <<97, 98>>
    /\ env.entries[3].meta = "dir" /\ env.entries[3].name = <<97>>
    /\ Len(rows) = 3
    /\ rows[1].name = <<97, 47>> /\ rows[2].name = <<97, 98, 47>> /\ rows[3].name = <<65533>>

\* C10: Depth infinity or absent without the litmus header is answered 403
\* with the XML content type, no-cache headers and the fixed error body,
\* whatever the request body is: the body is never parsed, there is no XML
\* parse error, no property writer and no producer
C10_DepthForbidden ==
    (req.depth \in {"infinity", "absent"} /\ ~req.litmus) =>
        /\ ~rep.parsed
        /\ rep.name = "" /\ rep.ppc = "idle" /\ rep.calls = <<>> /\ rep.chan = <<>>
        /\ result \in {"none", "ok"}
        /\ pc \in {"report", "done"}
        /\ pc = "done" =>
             /\ result = "ok" /\ status = 403
             /\ headers.ContentType = "xml"
             /\ headers.CacheControl /\ headers.Pragma
             /\ rep.body = "propfind-finite-depth"

\* a malformed body with no Depth header was answered 403
C10_Witness ==
    /\ req.depth = "absent" /\ ~req.litmus /\ req.body.kind = "malformed"
    /\ pc = "done" /\ status = 403 /\ rep.body = "propfind-finite-depth"

----------------------------------------------------------------------------
(* handle_report: the producer *)

\* the collaborator calls for the hrefs i .. n, in the order of the loop body
RECURSIVE HrefCalls(_, _)
HrefCalls(i, n) ==
    IF i > n THEN <<>>
    ELSE <<<<"patch_path", i>>, <<"metadata", i>>, <<"write_props", i>>, <<"flush", i>>>>
         \o HrefCalls(i + 1, n)

\* all calls of a producer that runs to its end over n hrefs
ExpectedCalls(n) == HrefCalls(1, n) \o <<<<"close", 0>>>>

IsPrefix(s, t) == Len(s) <= Len(t) /\ SubSeq(t, 1, Len(s)) = s

\* the producer exists: the handler returned the streamed body
Streaming == pc = "done" /\ rep.body = "stream"

\* the hrefs whose properties were written, in the order of the writes
RECURSIVE Written(_)
Written(cs) ==
    IF cs = <<>> THEN <<>>
    ELSE IF Head(cs)[1] = "write_props"
           THEN <<rep.list_href[Head(cs)[2]]>> \o Written(Tail(cs))
           ELSE Written(Tail(cs))

\* C11: with a depth other than 0 the producer works through the hrefs of the
\* request body in their order, one href at a time: patch_path, metadata,
\* write_props, flush for h1, then for h2, ..; when every call succeeds the
\* properties of exactly those hrefs were written, each once, and close was
\* called once, after the last flush.
C11_ProducerOrder ==
    (Streaming /\ rep.depth # "0") =>
        /\ rep.list_href = req.body.hrefs
        /\ IsPrefix(rep.calls, ExpectedCalls(Len(req.body.hrefs)))
        /\ (rep.presult = "ok" =>
               /\ rep.calls = ExpectedCalls(Len(req.body.hrefs))
               /\ Written(rep.calls) = req.body.hrefs)

\* two hrefs, listed h2 before h1, were written in that order and the
\* writer was closed
C11_Witness ==
    /\ Streaming /\ rep.depth = "infinity" /\ req.depth = "absent" /\ req.litmus
    /\ req.body.hrefs = <<"h2", "h1">>
    /\ rep.presult = "ok"
    /\ Written(rep.calls) = <<"h2", "h1">>
    /\ rep.calls[Len(rep.calls)] = <<"close", 0>>
    /\ rep.calls[Len(rep.calls) - 1] = <<"flush", 2>>

\* C12: with Depth: 0 the producer resolves no resource, whether or not the
\* body lists hrefs: it makes no patch_path, metadata or write_props call and
\* its only call is one close; for an empty request body the writer is
\* constructed for "allprop" with no properties and no targets.
C12_DepthZero ==
    /\ (Streaming /\ rep.depth = "0") =>
          /\ rep.calls \in {<<>>, <<<<"close", 0>>>>}
          /\ rep.idx = 1
          /\ rep.ppc \in {"loop", "close", "done"}
          /\ (rep.ppc = "done" => rep.calls = <<<<"close", 0>>>>)
    /\ (req.body.kind = "empty" /\ (pc = "propwriter" \/ Streaming)) =>
          /\ rep.name = "allprop" /\ rep.props = {} /\ rep.list_href = <<>>
          /\ ~rep.parsed

\* a Depth: 0 request whose body lists two hrefs ended with the one close
C12_Witness ==
    /\ Streaming /\ req.depth = "0" /\ req.body.hrefs = <<"h1", "h2">>
    /\ rep.ppc = "done" /\ rep.presult = "ok"
    /\ rep.calls = <<<<"close", 0>>>>
    /\ rep.received = <<0>>

\* the body was an accepted addressbook-multiget root and the property
\* selector was evaluated
SelectorEvaluated ==
    /\ req.body.kind = "multiget"
    /\ pc = "propwriter" \/ (pc = "done" /\ status # 403)

\* C13 as stated: a prop child gives the mode "prop" with its child elements
\* as the requested set; without a prop child the request is processed as
\* "allprop" with an empty set and is not rejected.
C13_Original ==
    SelectorEvaluated =>
        IF req.body.has_prop
          THEN rep.name = "prop" /\ rep.props = req.body.props
          ELSE result # "err_xml" /\ rep.name = "allprop" /\ rep.props = {}

\* C13: for an accepted addressbook-multiget root, a prop child gives the mode
\* "prop" with its child elements as the requested set; without a prop child
\* the request is rejected with the XML parse error and no writer is made.
C13_PropSelector ==
    SelectorEvaluated =>
        IF req.body.has_prop
          THEN rep.name = "prop" /\ rep.props = req.body.props /\ result # "err_xml"
          ELSE /\ pc = "done" /\ result = "err_xml"
               /\ rep.name = "" /\ rep.body # "stream" /\ rep.ppc = "idle"
               /\ rep.calls = <<>>

\* a multiget body with hrefs and no prop child was rejected
C13_Witness ==
    /\ req.body.kind = "multiget" /\ ~req.body.has_prop
    /\ req.body.hrefs = <<"h1">> /\ req.depth = "1"
    /\ pc = "done" /\ result = "err_xml" /\ rep.ppc = "idle"

\* the error a failing step of the loop body ends the producer with
StepError(op) ==
    CASE op = "path" -> "err_invalid_path"
      [] op \in {"patch_path", "metadata"} -> "err_fs"
      [] op = "write_props" -> "err_write"
      [] OTHER -> "err_send"

\* the chunks flushed for the hrefs i .. n
RECURSIVE Chunks(_, _)
Chunks(i, n) == IF i > n THEN <<>> ELSE <<i>> \o Chunks(i + 1, n)

\* what the producer has put on the channel and the consumer has not lost
Delivered == rep.received \o rep.chan

\* C14: when a step for href hi fails (path construction, patch_path,
\* metadata, write_props or flush) the producer has ended with that step's
\* error: the failing call is the last call made, no step was executed for a
\* later href, close was not called, and the output is the chunks flushed for
\* h1 .. h(i-1), without the closing chunk.
C14_AbortOnFailure ==
    (Streaming /\ rep.failed # <<>> /\ rep.failed[1] # "close") =>
        LET op == rep.failed[1]
            i == rep.failed[2]
        IN  /\ rep.ppc = "done" /\ rep.presult = StepError(op)
            /\ IsPrefix(rep.calls, HrefCalls(1, i))
            /\ \A k \in 1 .. Len(rep.calls) :
                  rep.calls[k][1] # "close" /\ rep.calls[k][2] <= i
            /\ (op # "path" => rep.calls # <<>> /\ rep.calls[Len(rep.calls)] = rep.failed)
            /\ (op = "path" => rep.calls = HrefCalls(1, i - 1))
            /\ IsPrefix(Delivered, Chunks(1, i - 1))
            /\ (rep.consumer = "open" => Delivered = Chunks(1, i - 1))

\* metadata failed for the second of two hrefs after the first was flushed
\* and received
C14_Witness ==
    /\ Streaming /\ req.body.hrefs = <<"h1", "h2">>
    /\ rep.failed = <<"metadata", 2>>
    /\ rep.ppc = "done" /\ rep.presult = "err_fs"
    /\ rep.received = <<1>> /\ rep.consumer = "open"

\* the chunks of the sends in cs, in the order of the calls (0 is the
\* closing chunk)
RECURSIVE Sent(_)
Sent(cs) ==
    IF cs = <<>> THEN <<>>
    ELSE IF Head(cs)[1] \in {"flush", "close"}
           THEN <<Head(cs)[2]>> \o Sent(Tail(cs))
           ELSE Sent(Tail(cs))

SendFailed == rep.failed # <<>> /\ rep.failed[1] \in {"flush", "close"}

\* what holds in every state of a streamed response: chunks arrive in the
\* order they were produced, and a failed send is the producer's last call
C15_State ==
    Streaming =>
        /\ IsPrefix(rep.received, Sent(rep.calls))
        /\ (rep.consumer = "open" => Delivered = Sent(rep.calls))
        /\ (rep.consumer = "dropped" => rep.chan = <<>>)
        /\ (SendFailed =>
               /\ rep.consumer = "dropped"
               /\ rep.ppc = "done" /\ rep.presult = "err_send"
               /\ rep.calls[Len(rep.calls)] = rep.failed)

\* the step of the producer at its next send after the consumer dropped the
\* body: the send fails and the producer ends
C15_Step ==
    (Streaming /\ rep.consumer = "dropped" /\ rep.ppc \in {"flush", "close"}) =>
        /\ rep'.ppc = "done" /\ rep'.presult = "err_send"
        /\ rep'.received = rep.received /\ rep'.chan = <<>>
        /\ Len(rep'.calls) = Len(rep.calls) + 1

\* C15: under every interleaving of producer and consumer, once the consumer
\* has dropped the body the next send fails and the producer ends there: the
\* failed send is its last call, so no patch_path, metadata, write_props,
\* flush or close follows for the remaining hrefs; the chunks the consumer
\* received are a prefix of the chunks sent, in the order of the sends.
C15_Cancellation == [](C15_State) /\ [][C15_Step]_vars

\* the consumer received the chunk of the first href and dropped the body;
\* the flush for the second href failed and ended the producer
C15_Witness ==
    /\ Streaming /\ req.body.hrefs = <<"h1", "h2">>
    /\ rep.consumer = "dropped" /\ rep.received = <<1>>
    /\ rep.failed = <<"flush", 2>>
    /\ rep.ppc = "done" /\ rep.presult = "err_send"

----------------------------------------------------------------------------
(* handle_get: missing modification time, order of the checks, overflow *)

\* C16: a regular file without a modification time is served whatever the
\* request headers are, If-Range included: the handler does not abort because
\* the timestamp is missing, the response has no Last-Modified header, and a
\* 200 or 206 response carries the ETag.
C16_NoMtimeServed ==
    (IsFile /\ ~env.has_mtime /\ pc = "done" /\ build = "unknown") =>
        /\ result # "panic"
        /\ ~headers.LastModified
        /\ (status \in {200, 206} => headers.ETag)

----------------------------------------------------------------------------
(* handle_report: href text *)

\* the producer has dealt with the text of the href it stands at, and that
\* text is no path
BadHrefHandled ==
    /\ Streaming /\ rep.depth # "0"
    /\ rep.idx \in 1 .. Len(rep.list_href)
    /\ rep.list_href[rep.idx] \in {"none", "bad"}
    /\ rep.ppc \notin {"loop", "url"}

\* C17: an href whose text cannot be turned into a path, an href without any
\* text included, ends the producer with the invalid-path error before
\* patch_path or metadata is called for it; the producer aborts in no other way
\* at that step.
C17_InvalidPath ==
    BadHrefHandled =>
        /\ rep.ppc = "done" /\ rep.presult = "err_invalid_path"
        /\ \A k \in 1 .. Len(rep.calls) : rep.calls[k][2] < rep.idx

----------------------------------------------------------------------------
(* handle_get: order of the checks *)

\* the range starts at or past the end of a file of length l
StartsPastEnd(r, l) ==
    CASE r.kind \in {"FromTo", "AllFrom"} -> r.a >= l
      [] OTHER -> r.a = 0

\* C18: the checks run in the order If-Range, range resolution with the 416
\* test, Last-Modified/ETag, the If-Match family, seek/Content-Range/status.
\* So an honoured single range that starts at or past the end, together with
\* a failing conditional, ends with 416 and neither ETag nor Last-Modified;
\* a satisfiable range with a failing conditional ends with the
\* conditional's status, ETag set, no seek, no Content-Range, no
\* Content-Length.
C18_CheckOrder ==
    (/\ IsFile /\ Honoured /\ SingleRange(req.range)
     /\ env.if_match # 0 /\ pc = "done") =>
        IF StartsPastEnd(req.range.ranges[1], env.len)
          THEN /\ status = 416 /\ result = "err_status"
               /\ ~headers.ETag /\ ~headers.LastModified
          ELSE /\ status = env.if_match /\ result = "err_status"
               /\ headers.ETag /\ headers.LastModified = env.has_mtime
               /\ seeked = -1
               /\ headers.ContentRange = <<>> /\ headers.ContentLength = -1

----------------------------------------------------------------------------
(* handle_dirlist: the directory indications of a row *)

\* the row's display name ends with the separator
TrailingSlash(n) == n # <<>> /\ n[Len(n)] = 47

\* C19: for every row of the listing the three directory indications agree
\* with the resolved metadata: the entry stands in the directories-first
\* group, its link path and its display name end with the separator, and its
\* size column is the [DIR] marker, if and only if the metadata says
\* directory; every other entry shows its byte length.
C19_DirMarkers ==
    (env.kind = "dir" /\ pc \in {"dir_rows", "done"} /\ started) =>
        \A i \in 1 .. Len(rows) :
            LET isdir == dirents[i].meta.kind = "dir"
            IN  /\ rows[i].href.slash = isdir
                /\ TrailingSlash(rows[i].name) = isdir
                /\ (rows[i].size = -1) = isdir
                /\ ~isdir => rows[i].size = dirents[i].meta.len
                /\ isdir => \A j \in 1 .. i - 1 : dirents[j].meta.kind = "dir"
                /\ ~isdir => \A j \in i + 1 .. Len(dirents) : dirents[j].meta.kind # "dir"

----------------------------------------------------------------------------
(* handle_get: range arithmetic *)

\* C20: range resolution never wraps around: once an honoured single range
\* has been resolved, none of e - s + 1, len - s, len - n, start + count and
\* start + count - 1 has left 0 .. MaxU64 (the build is decided at the first
\* operation that does), and the handler has not aborted on one.
C20_NoWrap ==
    (IsFile /\ Honoured /\ SingleRange(req.range) /\ ~BeforeResolve) =>
        /\ build = "unknown"
        /\ result # "panic"

====
